---- MODULE Spec2Model ----
(***************************************************************************)
(* Hospital management system (src/app.py, src/database.py): the booking   *)
(* ledger (appointment, treatment), the availability store and the slot    *)
(* resolver, as a state machine over the SQLite tables.                     *)
(***************************************************************************)
EXTENDS Integers, Sequences, FiniteSets, TLC

VARIABLES
    appointment,          \* table appointment: sequence of rows, app_id = index
    treatment,            \* table treatment: sequence of rows, treatment_id = index
    doctor_availability,  \* table doctor_availability: set of rows
    now,                  \* datetime.now(), in seconds since 00:00 of day 0
    req,                  \* per patient: the book_appointment request between its SELECT and its INSERT
    resp,                 \* the response of the last completed request
    race,                 \* history: the slot two patients race for and the flash each got (RaceSpec)
    is_active,            \* column user.is_active, per user_id
    session               \* the user_ids whose browser holds a session cookie with 'user_id'

vars == <<appointment, treatment, doctor_availability, now, req, resp, race, is_active, session>>

----------------------------------------------------------------------------
(* Bounds of the model *)

\* the appointment table is capped at this many rows
MaxApps == 2

\* the availability tables drawn for the resolver hold at most this many rows
MaxWindows == 1

----------------------------------------------------------------------------
(* Rows of table user (seeded admin, add_doctor, register) *)

Patients == {"p1", "p2"}
Doctors == {"d1", "d2"}
Admins == {"admin"}
user == Patients \cup Doctors \cup Admins

\* a user_id with no row in table user
NoSuchUser == "nobody"

----------------------------------------------------------------------------
(* Text columns and URL segments: dates '%Y-%m-%d', times '%H:%M' *)

\* the text strftime('%Y-%m-%d') gives for day n
D(n) == [fmt |-> "Y-m-d", day |-> n]
\* the text 'HH:MM', zero padded as strftime('%H:%M') writes it
T(h, m) == [fmt |-> "HH:MM", h |-> h, m |-> m]
\* texts strptime rejects
BadDate == [fmt |-> "bad", day |-> 0]
BadTime == [fmt |-> "bad", h |-> 0, m |-> 0]

ValueError == -1

\* datetime.strptime(date + " " + time, '%Y-%m-%d %H:%M'), in seconds
strptime(date_str, time_str) ==
    IF date_str.fmt = "bad" \/ time_str.fmt = "bad"
    THEN ValueError
    ELSE ((date_str.day * 24 + time_str.h) * 60 + time_str.m) * 60

\* dt.strftime('%H:%M')
strftime_HM(dt) == T((dt \div 3600) % 24, (dt \div 60) % 60)

\* date.today()
today == now \div 86400

\* timedelta(minutes=m), in seconds
timedelta_minutes(m) == m * 60

----------------------------------------------------------------------------
(* Table appointment: UNIQUE(doctor_id, date, time), status CHECK *)

Statuses == {"Booked", "Completed", "Cancelled"}

AppIds == 1..Len(appointment)

\* SELECT app_id FROM appointment WHERE doctor_id = ? AND date = ? AND time = ?
RowsAt(doctor_id, date_str, time_str) ==
    {a \in AppIds : /\ appointment[a].doctor_id = doctor_id
                    /\ appointment[a].date = date_str
                    /\ appointment[a].time = time_str}

\* ... AND status = 'Booked'
BookedAt(doctor_id, date_str, time_str) ==
    {a \in RowsAt(doctor_id, date_str, time_str) : appointment[a].status = "Booked"}

\* the UNIQUE(doctor_id, date, time) constraint: may this row be inserted?
UniqueSlotMutant(doctor_id, date_str, time_str) == TRUE
UniqueSlotWhileBookedMutant(doctor_id, date_str, time_str) ==
    BookedAt(doctor_id, date_str, time_str) = {}
UniqueSlot(doctor_id, date_str, time_str) ==
    RowsAt(doctor_id, date_str, time_str) = {}

\* UPDATE appointment SET status = ? WHERE app_id = ?
SetStatus(app_id, status) ==
    [appointment EXCEPT ![app_id].status = status]

\* SELECT ... FROM treatment WHERE app_id = ?  (UNIQUE app_id)
TreatmentsOf(app_id) == {t \in 1..Len(treatment) : treatment[t].app_id = app_id}

----------------------------------------------------------------------------
(* Responses: flash message, redirect target or rendered template, and the   *)
(* SQL statements the handler issued                                         *)

NoSlots == [d \in {} |-> <<>>]

Response(flash, redirect, doctor_id, sql) ==
    [flash |-> flash, redirect |-> redirect, doctor_id |-> doctor_id, app_id |-> 0,
     sql |-> sql, slots |-> NoSlots]

\* the response to a request whose URL ends in /<app_id>
ResponseOn(app_id, flash, redirect, sql) ==
    [Response(flash, redirect, "", sql) EXCEPT !.app_id = app_id]

NoResponse == Response("", "", "", <<>>)

\* no book_appointment request of this patient is between its SELECT and its INSERT
NoReq == [doctor_id |-> "", date |-> BadDate, time |-> BadTime]

\* the race history is not kept
NoRace == [slot |-> NoReq, out |-> [p \in Patients |-> ""]]

----------------------------------------------------------------------------
(* The wall clock *)

ClockInstants ==
    {strptime(D(0), T(12, 0)), strptime(D(1), T(8, 0)), strptime(D(1), T(8, 0)) + 1}

Tick ==
    /\ \E t \in ClockInstants : t > now /\ now' = t
    /\ UNCHANGED <<appointment, treatment, doctor_availability, req, resp>>

----------------------------------------------------------------------------
(* book_appointment: POST /patient/book_slot/<doctor_id>/<date_str>/<time_str> *)

\* the comparison of line 674
InThePastMutant(appt_datetime) == appt_datetime <= now
InThePast(appt_datetime) == appt_datetime < now

\* lines 669-695: parse, past check, optimistic SELECT
book_appointment(patient_id, doctor_id, date_str, time_str) ==
    /\ req[patient_id] = NoReq
    /\ LET appt_datetime == strptime(date_str, time_str) IN
       IF appt_datetime = ValueError THEN
            /\ resp' = Response("Invalid date or time format.", "patient_dashboard", "", <<>>)
            /\ UNCHANGED req
       ELSE IF InThePast(appt_datetime) THEN
            /\ resp' = Response("Cannot book an appointment in the past.",
                                "patient_dashboard", "", <<>>)
            /\ UNCHANGED req
       ELSE IF BookedAt(doctor_id, date_str, time_str) # {} THEN
            /\ resp' = Response("This slot was just booked by another patient.",
                                "check_doctor_availability", doctor_id, <<"SELECT">>)
            /\ UNCHANGED req
       ELSE /\ req' = [req EXCEPT ![patient_id] =
                          [doctor_id |-> doctor_id, date |-> date_str, time |-> time_str]]
            /\ UNCHANGED resp
    /\ UNCHANGED <<appointment, treatment, doctor_availability, now>>

\* lines 697-714: INSERT, commit, name lookup
book_appointment_insert(patient_id) ==
    /\ req[patient_id] # NoReq
    /\ LET r == req[patient_id] IN
       IF ~UniqueSlot(r.doctor_id, r.date, r.time) THEN
            \* sqlite3.IntegrityError
            /\ resp' = Response("Integrity Error: Double-booking attempted.",
                                "patient_dashboard", "", <<"SELECT", "INSERT">>)
            /\ UNCHANGED appointment
       ELSE /\ Len(appointment) < MaxApps
            /\ appointment' = Append(appointment,
                    [patient_id |-> patient_id, doctor_id |-> r.doctor_id,
                     date |-> r.date, time |-> r.time, status |-> "Booked"])
            \* line 705 reads the doctor's name after the commit: None['name']
            \* raises TypeError when no user row has this id
            /\ resp' = IF r.doctor_id \in user
                       THEN Response("Appointment booked successfully.",
                                     "patient_dashboard", "",
                                     <<"SELECT", "INSERT", "COMMIT", "SELECT">>)
                       ELSE Response("An unexpected error occurred during booking.",
                                     "patient_dashboard", "",
                                     <<"SELECT", "INSERT", "COMMIT", "SELECT", "ROLLBACK">>)
    /\ req' = [req EXCEPT ![patient_id] = NoReq]
    /\ UNCHANGED <<treatment, doctor_availability, now>>

----------------------------------------------------------------------------
(* Cancellation *)

\* UPDATE appointment SET status = 'Cancelled' WHERE app_id = ? AND status = 'Booked'
Cancellable(app_id) == app_id \in AppIds /\ appointment[app_id].status = "Booked"

\* ownership columns of the two WHERE clauses
OwnedByPatientMutant(app_id, patient_id) == app_id \in AppIds
OwnedByPatient(app_id, patient_id) ==
    app_id \in AppIds /\ appointment[app_id].patient_id = patient_id

OwnedByDoctor(app_id, doctor_id) ==
    app_id \in AppIds /\ appointment[app_id].doctor_id = doctor_id

\* POST /patient/cancel_appointment/<app_id>
patient_cancel_appointment(patient_id, app_id) ==
    /\ IF OwnedByPatient(app_id, patient_id) /\ Cancellable(app_id)
       THEN /\ appointment' = SetStatus(app_id, "Cancelled")
            /\ resp' = ResponseOn(app_id,
                    "Appointment successfully cancelled.",
                    "patient_dashboard", <<"UPDATE", "COMMIT">>)
       ELSE \* cursor.rowcount == 0
            /\ resp' = ResponseOn(app_id,
                    "Appointment not found, already completed, or cancellation window passed.",
                    "patient_dashboard", <<"UPDATE">>)
            /\ UNCHANGED appointment
    /\ UNCHANGED <<treatment, doctor_availability, now, req>>

\* POST /doctor/cancel_appointment/<app_id>
doctor_cancel_appointment(doctor_id, app_id) ==
    /\ IF OwnedByDoctor(app_id, doctor_id) /\ Cancellable(app_id)
       THEN /\ appointment' = SetStatus(app_id, "Cancelled")
            /\ resp' = ResponseOn(app_id,
                    "Appointment successfully cancelled.",
                    "doctor_dashboard", <<"UPDATE", "COMMIT">>)
       ELSE /\ resp' = ResponseOn(app_id,
               "Appointment not found, already completed, or you lack authorization.",
               "doctor_dashboard", <<"UPDATE">>)
            /\ UNCHANGED appointment
    /\ UNCHANGED <<treatment, doctor_availability, now, req>>

----------------------------------------------------------------------------
(* update_treatment: POST /doctor/update_treatment/<app_id> *)

\* where a request's transaction can meet a store failure (an exception other
\* than sqlite3.IntegrityError): at the statement after its first write, or at
\* the commit
StoreFailures == {"none", "UPDATE", "COMMIT"}

\* conn.rollback(): the table as it was before the writes of the transaction
rollbackMutant(before, written) == written
rollback(before, written) == before

update_treatment(doctor_id, app_id, failure) ==
    /\ IF ~(OwnedByDoctor(app_id, doctor_id) /\ appointment[app_id].patient_id \in user)
       THEN /\ resp' = ResponseOn(app_id,
               "Appointment not found or you are not authorized to update it.",
               "doctor_dashboard", <<"SELECT">>)
            /\ UNCHANGED <<appointment, treatment>>
       ELSE IF TreatmentsOf(app_id) # {}
       THEN \* sqlite3.IntegrityError on UNIQUE app_id; the form is rendered again
            /\ resp' = ResponseOn(app_id,
                    "Error: Treatment already exists for this appointment.",
                    "", <<"SELECT", "INSERT">>)
            /\ UNCHANGED <<appointment, treatment>>
       ELSE IF failure # "none"
       THEN \* except Exception: conn.rollback(); the form is rendered again
            /\ treatment' = rollback(treatment, Append(treatment, [app_id |-> app_id]))
            /\ appointment' = rollback(appointment,
                                       IF failure = "COMMIT"
                                       THEN SetStatus(app_id, "Completed") ELSE appointment)
            /\ resp' = ResponseOn(app_id, "Database error: OperationalError", "",
                                  IF failure = "COMMIT"
                                  THEN <<"SELECT", "INSERT", "UPDATE", "COMMIT", "ROLLBACK">>
                                  ELSE <<"SELECT", "INSERT", "UPDATE", "ROLLBACK">>)
       ELSE /\ treatment' = Append(treatment, [app_id |-> app_id])
            /\ appointment' = SetStatus(app_id, "Completed")
            /\ resp' = ResponseOn(app_id, "Treatment recorded and appointment marked as COMPLETED.",
                                "doctor_dashboard",
                                <<"SELECT", "INSERT", "UPDATE", "COMMIT">>)
    /\ UNCHANGED <<doctor_availability, now, req>>

----------------------------------------------------------------------------
(* check_doctor_availability: GET /patient/check_availability/<doctor_id> *)

slot_duration == 30

\* [(date.today() + timedelta(days=i)).strftime('%Y-%m-%d') for i in range(1, 8)]
future_dates == {D(today + i) : i \in 1..7}

\* SELECT date, start_time, end_time FROM doctor_availability
\* WHERE doctor_id = ? AND date IN (future_dates)
availabilityMutant(doctor_id) ==
    {r \in doctor_availability : r.doctor_id = doctor_id}
availability(doctor_id) ==
    {r \in doctor_availability : r.doctor_id = doctor_id /\ r.date \in future_dates}

\* ORDER BY date, start_time: the order of the texts, which on zero padded
\* texts is the order of the dates and times they denote
RowBeforeMutant(a, b) ==
    \/ a.date.day > b.date.day
    \/ a.date.day = b.date.day
       /\ strptime(a.date, a.start_time) > strptime(b.date, b.start_time)
RowBefore(a, b) ==
    \/ a.date.day < b.date.day
    \/ a.date.day = b.date.day
       /\ strptime(a.date, a.start_time) < strptime(b.date, b.start_time)

RECURSIVE OrderBy(_)
OrderBy(rows) ==
    IF rows = {} THEN <<>>
    ELSE LET first == CHOOSE r \in rows : \A o \in rows \ {r} : RowBefore(r, o)
         IN  <<first>> \o OrderBy(rows \ {first})

\* SELECT date, time FROM appointment
\* WHERE doctor_id = ? AND date IN (future_dates) AND status = 'Booked'
booked_mapMutant(doctor_id) ==
    {<<appointment[a].date, appointment[a].time>> :
        a \in {x \in AppIds : /\ appointment[x].doctor_id = doctor_id
                              /\ appointment[x].date \in future_dates}}
booked_map(doctor_id) ==
    {<<appointment[a].date, appointment[a].time>> :
        a \in {x \in AppIds : /\ appointment[x].doctor_id = doctor_id
                              /\ appointment[x].date \in future_dates
                              /\ appointment[x].status = "Booked"}}

\* the slot dict appended at lines 653-657
Slot(avail_date, current_dt, booked) ==
    [time |-> strftime_HM(current_dt),
     end_time |-> strftime_HM(current_dt + timedelta_minutes(slot_duration)),
     is_booked |-> <<avail_date, strftime_HM(current_dt)>> \in booked]

\* the condition of the while loop of line 644
WalkOnMutant(current_dt, end_dt_limit) == current_dt <= end_dt_limit
WalkOn(current_dt, end_dt_limit) == current_dt < end_dt_limit

\* the while loop of lines 644-659 over one availability row
RECURSIVE Walk(_, _, _, _)
Walk(avail_date, current_dt, end_dt_limit, booked) ==
    IF WalkOn(current_dt, end_dt_limit)
    THEN <<Slot(avail_date, current_dt, booked)>>
         \o Walk(avail_date, current_dt + timedelta_minutes(slot_duration),
                 end_dt_limit, booked)
    ELSE <<>>

WalkRow(row, booked) ==
    Walk(row.date, strptime(row.date, row.start_time),
         strptime(row.date, row.end_time), booked)

\* the list built under one date key by the for loop of line 637
RECURSIVE SlotsOn(_, _, _)
SlotsOn(rows, date_str, booked) ==
    IF rows = <<>> THEN <<>>
    ELSE (IF Head(rows).date = date_str THEN WalkRow(Head(rows), booked) ELSE <<>>)
         \o SlotsOn(Tail(rows), date_str, booked)

\* the dict available_slots: date -> list of slots
available_slots(doctor_id) ==
    LET rows == OrderBy(availability(doctor_id))
        booked == booked_map(doctor_id)
        dates == {rows[i].date : i \in {j \in 1..Len(rows) : WalkRow(rows[j], booked) # <<>>}}
    IN  [d \in dates |-> SlotsOn(rows, d, booked)]

\* a variant that also purges the doctor's rows of dates before tomorrow
check_doctor_availabilityMutant(patient_id, doctor_id) ==
    /\ resp' = [flash |-> "", redirect |-> "", doctor_id |-> doctor_id, app_id |-> 0,
                sql |-> <<"SELECT", "SELECT", "SELECT", "DELETE">>,
                slots |-> available_slots(doctor_id), future_dates |-> future_dates]
    /\ doctor_availability' =
          {r \in doctor_availability : r.doctor_id = doctor_id => r.date \in future_dates}
    /\ UNCHANGED <<appointment, treatment, now, req>>

\* the rendered page carries the handler's local future_dates of line 614 along
\* with the template's arguments
check_doctor_availability(patient_id, doctor_id) ==
    /\ IF doctor_id \notin user
       THEN resp' = Response("Doctor not found.", "patient_dashboard", "", <<"SELECT">>)
       ELSE resp' = [flash |-> "", redirect |-> "", doctor_id |-> doctor_id, app_id |-> 0,
                     sql |-> <<"SELECT", "SELECT", "SELECT">>,
                     slots |-> available_slots(doctor_id), future_dates |-> future_dates]
    /\ UNCHANGED <<appointment, treatment, doctor_availability, now, req>>

----------------------------------------------------------------------------
(* set_doctor_availability: POST /doctor/availability *)

\* the dict slots of lines 355-358
slots == [morning |-> <<T(8, 0), T(12, 0)>>, evening |-> <<T(16, 0), T(20, 0)>>]

\* where the transaction of the POST can meet a store failure: at its first
\* INSERT, or at the commit
AvailabilityFailures == {"none", "INSERT", "COMMIT"}

\* the WHERE clause of the DELETE of lines 349-353
ReplacedMutant(r, doctor_id) == r.date \in future_dates
Replaced(r, doctor_id) == r.doctor_id = doctor_id /\ r.date \in future_dates

\* form: the set of checked boxes '{date_str}_{slot_key}', each as
\* <<days ahead in 1..7, slot_key>>.  The DELETE removes every row of the doctor
\* on the future dates, so none of the INSERTs can hit
\* UNIQUE(doctor_id, date, start_time)
set_doctor_availability(doctor_id, form, failure) ==
    LET deleted == {r \in doctor_availability : ~Replaced(r, doctor_id)}
        inserted == deleted \cup
                    {[doctor_id |-> doctor_id, date |-> D(today + b[1]),
                      start_time |-> slots[b[2]][1], end_time |-> slots[b[2]][2]] : b \in form}
    IN
    /\ IF failure = "none" \/ (failure = "INSERT" /\ form = {})
       THEN /\ doctor_availability' = inserted
            /\ resp' = Response("Availability updated successfully for the next 7 days!",
                                "doctor_dashboard", "",
                                <<"DELETE">> \o [i \in 1..Cardinality(form) |-> "INSERT"]
                                    \o <<"COMMIT">>)
       ELSE \* except Exception: conn.rollback()
            /\ doctor_availability' =
                  rollback(doctor_availability,
                           IF failure = "INSERT" THEN deleted ELSE inserted)
            /\ resp' = Response("An error occurred while updating availability: OperationalError",
                                "set_doctor_availability", "",
                                IF failure = "INSERT"
                                THEN <<"DELETE", "INSERT", "ROLLBACK">>
                                ELSE <<"DELETE">> \o [i \in 1..Cardinality(form) |-> "INSERT"]
                                        \o <<"COMMIT", "ROLLBACK">>)
    /\ UNCHANGED <<appointment, treatment, now, req>>

----------------------------------------------------------------------------
\* the tables after init_db, every user active and logged in: login_required
\* passes for each handler below (the sessions themselves are followed in
\* AccessSpec)
Init ==
    /\ appointment = <<>>
    /\ treatment = <<>>
    /\ doctor_availability = {}
    /\ now = strptime(D(0), T(12, 0))
    /\ req = [p \in Patients |-> NoReq]
    /\ resp = NoResponse
    /\ race = NoRace
    /\ is_active = [u \in user |-> 1]
    /\ session = user

\* the URL segments tried by the patients
BookDoctorIds == {"d1", NoSuchUser}
BookDates == {D(1), BadDate}
BookTimes == {T(8, 0)}

Next ==
    /\ \/ Tick
       \/ \E p \in Patients, d \in BookDoctorIds, ds \in BookDates, ts \in BookTimes :
            book_appointment(p, d, ds, ts)
       \/ \E p \in Patients : book_appointment_insert(p)
       \/ \E p \in Patients, a \in 1..(Len(appointment) + 1) : patient_cancel_appointment(p, a)
       \/ \E d \in Doctors, a \in 1..(Len(appointment) + 1) : doctor_cancel_appointment(d, a)
       \/ \E d \in Doctors, a \in 1..(Len(appointment) + 1), f \in StoreFailures :
            update_treatment(d, a, f)
    /\ UNCHANGED <<race, is_active, session>>

Spec == Init /\ [][Next]_vars

----------------------------------------------------------------------------
(* The availability store and the resolver: doctors post their forms, the    *)
(* clock advances, patients resolve slots                                    *)

\* the forms posted by the doctors
Forms ==
    {{}, {<<1, "morning">>}, {<<1, "morning">>, <<1, "evening">>}, {<<7, "evening">>}}

AvailabilityNext ==
    /\ \/ Tick
       \/ \E d \in Doctors, form \in Forms, f \in AvailabilityFailures :
            set_doctor_availability(d, form, f)
       \/ \E p \in Patients, d \in Doctors \cup {NoSuchUser} : check_doctor_availability(p, d)
    /\ UNCHANGED <<race, is_active, session>>

\* the ledger the doctors and patients find: empty, one booked appointment,
\* or one appointment that was booked and cancelled
AvailabilityApps ==
    {<<>>,
     <<[patient_id |-> "p1", doctor_id |-> "d1", date |-> D(1), time |-> T(8, 0),
        status |-> "Booked"]>>,
     <<[patient_id |-> "p1", doctor_id |-> "d1", date |-> D(2), time |-> T(16, 30),
        status |-> "Cancelled"]>>}

AvailabilityInit ==
    /\ appointment \in AvailabilityApps
    /\ treatment = <<>>
    /\ doctor_availability = {}
    /\ now = strptime(D(0), T(12, 0))
    /\ req = [p \in Patients |-> NoReq]
    /\ resp = NoResponse
    /\ race = NoRace
    /\ is_active = [u \in user |-> 1]
    /\ session = user

AvailabilitySpec == AvailabilityInit /\ [][AvailabilityNext]_vars

----------------------------------------------------------------------------
(* The slot resolver as a function of the tables: the tables are drawn, the  *)
(* resolver is applied                                                       *)

\* UNIQUE(doctor_id, date, start_time)
UniqueWindows(rows) ==
    \A a, b \in rows :
        (a.doctor_id = b.doctor_id /\ a.date = b.date /\ a.start_time = b.start_time)
            => a = b

\* UNIQUE(doctor_id, date, time)
UniqueSlots(rows) ==
    \A a, b \in rows :
        (a.doctor_id = b.doctor_id /\ a.date = b.date /\ a.time = b.time) => a = b

RECURSIVE SetToSeq(_)
SetToSeq(rows) ==
    IF rows = {} THEN <<>>
    ELSE LET r == CHOOSE x \in rows : TRUE IN <<r>> \o SetToSeq(rows \ {r})

WindowTimes ==
    {<<T(8, 0), T(8, 25)>>, <<T(8, 0), T(12, 0)>>,
     <<T(16, 0), T(20, 0)>>, <<T(23, 0), T(23, 45)>>}

WindowRows ==
    {[doctor_id |-> "d1", date |-> D(1), start_time |-> w[1], end_time |-> w[2]] :
        w \in WindowTimes}
    \cup {[doctor_id |-> "d2", date |-> D(1), start_time |-> T(8, 0), end_time |-> T(12, 0)],
          [doctor_id |-> "d1", date |-> D(8), start_time |-> T(8, 0), end_time |-> T(12, 0)]}

ResolverAppRows ==
    [patient_id : {"p1"}, doctor_id : Doctors, date : {D(1)},
     time : {T(8, 0), T(8, 30)}, status : Statuses]
    \cup {[patient_id |-> "p2", doctor_id |-> "d1", date |-> D(2),
           time |-> T(8, 0), status |-> "Booked"]}

\* the availability tables of at most n rows
RECURSIVE WindowTables(_)
WindowTables(n) ==
    IF n = 0 THEN {{}}
    ELSE LET less == WindowTables(n - 1)
         IN  less \cup {x[1] \cup {x[2]} :
                          x \in {y \in less \X WindowRows : UniqueWindows(y[1] \cup {y[2]})}}

\* the appointment tables of at most n rows
RECURSIVE AppTables(_)
AppTables(n) ==
    IF n = 0 THEN {{}}
    ELSE LET less == AppTables(n - 1)
         IN  less \cup {x[1] \cup {x[2]} :
                          x \in {y \in less \X ResolverAppRows : UniqueSlots(y[1] \cup {y[2]})}}

\* the treatment rows of the Completed appointments of a drawn table
RECURSIVE TreatmentsFor(_, _)
TreatmentsFor(apps, n) ==
    IF n = 0 THEN <<>>
    ELSE TreatmentsFor(apps, n - 1)
         \o (IF apps[n].status = "Completed" THEN <<[app_id |-> n]>> ELSE <<>>)

ResolverInit ==
    /\ appointment \in {SetToSeq(t) : t \in AppTables(MaxApps)}
    /\ treatment = TreatmentsFor(appointment, Len(appointment))
    /\ doctor_availability \in WindowTables(MaxWindows)
    /\ now \in {strptime(D(0), T(12, 0)), strptime(D(1), T(8, 0))}
    /\ req = [p \in Patients |-> NoReq]
    /\ resp = NoResponse
    /\ race = NoRace
    /\ is_active = [u \in user |-> 1]
    /\ session = user

ResolverNext ==
    /\ \E p \in Patients, d \in Doctors \cup {NoSuchUser} : check_doctor_availability(p, d)
    /\ UNCHANGED <<race, is_active, session>>

ResolverSpec == ResolverInit /\ [][ResolverNext]_vars

----------------------------------------------------------------------------
(* Two patients race for one free slot: each calls book_appointment once     *)

RaceSlots == [doctor_id : Doctors, date : {D(1)}, time : {T(8, 0), T(8, 30)}]

RaceInit ==
    /\ appointment \in {SetToSeq(t) : t \in AppTables(MaxApps - 1)}
    /\ treatment = TreatmentsFor(appointment, Len(appointment))
    /\ doctor_availability = {}
    /\ now \in {strptime(D(0), T(12, 0)), strptime(D(1), T(8, 0))}
    /\ req = [p \in Patients |-> NoReq]
    /\ resp = NoResponse
    /\ \E k \in RaceSlots :
          /\ RowsAt(k.doctor_id, k.date, k.time) = {}
          /\ race = [slot |-> k, out |-> [p \in Patients |-> ""]]
    /\ is_active = [u \in user |-> 1]
    /\ session = user

\* the flash message of the call of patient p, once it has been answered
Answered(p) ==
    race' = [race EXCEPT !.out[p] = IF req'[p] = NoReq THEN resp'.flash ELSE @]

RaceNext ==
    \/ \E p \in Patients :
          /\ race.out[p] = ""
          /\ book_appointment(p, race.slot.doctor_id, race.slot.date, race.slot.time)
          /\ Answered(p)
          /\ UNCHANGED <<is_active, session>>
    \/ \E p \in Patients :
          /\ book_appointment_insert(p)
          /\ Answered(p)
          /\ UNCHANGED <<is_active, session>>

RaceSpec == RaceInit /\ [][RaceNext]_vars

----------------------------------------------------------------------------
(* A doctor offers a morning, patients read the page, book and cancel        *)

\* the times of the book_slot URLs the patients send: two slot starts of the
\* morning window and a time off the 30-minute grid
OfferTimes == {T(8, 0), T(8, 30), T(8, 10)}

OfferNext ==
    /\ \/ set_doctor_availability("d1", {<<1, "morning">>}, "none")
       \/ \E p \in Patients :
            \* the page is read while no booking request is in flight
            /\ \A q \in Patients : req[q] = NoReq
            /\ check_doctor_availability(p, "d1")
       \/ \E p \in Patients, ts \in OfferTimes : book_appointment(p, "d1", D(1), ts)
       \/ \E p \in Patients : book_appointment_insert(p)
       \/ \E p \in Patients, a \in AppIds : patient_cancel_appointment(p, a)
    /\ UNCHANGED <<race, is_active, session>>

OfferSpec == Init /\ [][OfferNext]_vars

----------------------------------------------------------------------------
(* Sessions: login, logout, login_required, and the admin's toggle_user_status *)

\* column user.role
role(user_id) ==
    IF user_id \in Patients THEN "Patient"
    ELSE IF user_id \in Doctors THEN "Doctor" ELSE "Admin"

\* the dashboard of a role
dashboard(r) ==
    IF r = "Patient" THEN "patient_dashboard"
    ELSE IF r = "Doctor" THEN "doctor_dashboard" ELSE "admin_dashboard"

\* the decorator of lines 36-57 around a handler f: it reads the session
\* cookie only
login_required(user_id, r, f) ==
    IF user_id \notin session
    THEN /\ resp' = Response("Please log in to access this page.", "login", "", <<>>)
         /\ UNCHANGED <<appointment, treatment, doctor_availability, now, req,
                        is_active, session>>
    ELSE IF role(user_id) # r
    THEN /\ resp' = Response("Access denied: Insufficient privileges.",
                             dashboard(role(user_id)), "", <<>>)
         /\ UNCHANGED <<appointment, treatment, doctor_availability, now, req,
                        is_active, session>>
    ELSE f

\* POST /login with the user's own username and password
login(user_id) ==
    /\ IF is_active[user_id] = 1
       THEN /\ session' = session \cup {user_id}
            /\ resp' = Response("Welcome back!", dashboard(role(user_id)), "", <<"SELECT">>)
       ELSE /\ resp' = Response("Invalid username or password, or your account is inactive.",
                                "", "", <<"SELECT">>)
            /\ UNCHANGED session
    /\ UNCHANGED <<appointment, treatment, doctor_availability, now, req, is_active>>

\* GET /logout
logout(user_id) ==
    /\ session' = session \ {user_id}
    /\ resp' = Response("You have been logged out.", "index", "", <<>>)
    /\ UNCHANGED <<appointment, treatment, doctor_availability, now, req, is_active>>

\* POST /admin/toggle_user_status/<user_id>/<action>, behind login_required('Admin')
toggle_user_status(admin_id, user_id, action) ==
    login_required(admin_id, "Admin",
        /\ IF action \notin {"blacklist", "delete", "activate"}
           THEN /\ resp' = Response("Invalid action requested.", "admin_dashboard", "", <<>>)
                /\ UNCHANGED is_active
           ELSE IF user_id = admin_id
           THEN /\ resp' = Response("You cannot change your own status.",
                                    "admin_dashboard", "", <<>>)
                /\ UNCHANGED is_active
           ELSE /\ is_active' = [is_active EXCEPT ![user_id] =
                                    IF action = "activate" THEN 1 ELSE 0]
                /\ resp' = Response(IF action = "activate"
                                    THEN "has been Activated!" ELSE "has been Blacklisted!",
                                    "admin_dashboard", "", <<"UPDATE", "COMMIT", "SELECT">>)
        /\ UNCHANGED <<appointment, treatment, doctor_availability, now, req, session>>)

\* the requests of one patient and of one doctor, each behind login_required
PatientRequest(p) ==
    \/ login_required(p, "Patient",
          /\ book_appointment(p, "d1", D(1), T(8, 0))
          /\ UNCHANGED <<is_active, session>>)
    \/ \E a \in AppIds :
          login_required(p, "Patient",
             /\ patient_cancel_appointment(p, a)
             /\ UNCHANGED <<is_active, session>>)

DoctorRequest(d) ==
    \/ login_required(d, "Doctor",
          /\ set_doctor_availability(d, {<<1, "morning">>}, "none")
          /\ UNCHANGED <<is_active, session>>)
    \/ \E a \in AppIds :
          login_required(d, "Doctor",
             /\ update_treatment(d, a, "none")
             /\ UNCHANGED <<is_active, session>>)

\* the users whose sessions are followed
AccessUsers == {"p1", "d1", "admin"}
ToggleActions == {"blacklist", "activate", "purge"}

AccessInit ==
    /\ appointment = <<>>
    /\ treatment = <<>>
    /\ doctor_availability = {}
    /\ now = strptime(D(0), T(12, 0))
    /\ req = [p \in Patients |-> NoReq]
    /\ resp = NoResponse
    /\ race = NoRace
    /\ is_active = [u \in user |-> 1]
    /\ session = {}

AccessNext ==
    /\ \/ \E u \in AccessUsers : login(u)
       \/ \E u \in AccessUsers : logout(u)
       \/ \E u \in AccessUsers, action \in ToggleActions :
            toggle_user_status("admin", u, action)
       \/ PatientRequest("p1")
       \/ /\ book_appointment_insert("p1")
          /\ UNCHANGED <<is_active, session>>
       \/ DoctorRequest("d1")
    /\ UNCHANGED race

AccessSpec == AccessInit /\ [][AccessNext]_vars

----------------------------------------------------------------------------
(* Outcomes, by flash message *)

Booked == "Appointment booked successfully."
SlotAlreadyTaken ==
    {"This slot was just booked by another patient.",
     "Integrity Error: Double-booking attempted."}
InvalidWindow ==
    {"Cannot book an appointment in the past.", "Invalid date or time format."}
BookingFailed ==
    SlotAlreadyTaken \cup InvalidWindow \cup {"An unexpected error occurred during booking."}
NotFoundOrUnauthorized ==
    {"Appointment not found, already completed, or cancellation window passed.",
     "Appointment not found, already completed, or you lack authorization."}

SameSlot(a, b) ==
    /\ appointment[a].doctor_id = appointment[b].doctor_id
    /\ appointment[a].date = appointment[b].date
    /\ appointment[a].time = appointment[b].time

----------------------------------------------------------------------------
(* C1 *)

\* C1: in every reachable state at most one appointment row with status
\* Booked exists for a given (doctor_id, date, time), also when two racing
\* book_appointment calls both passed their pre-check before either inserted.
NoDoubleBooking ==
    \A a, b \in AppIds :
        (/\ appointment[a].status = "Booked"
         /\ appointment[b].status = "Booked"
         /\ SameSlot(a, b)) => a = b

\* a request that passed its pre-check is about to insert into a slot that
\* another patient has booked meanwhile
RaceLostWitness ==
    \E p \in Patients :
        /\ req[p] # NoReq
        /\ \E a \in BookedAt(req[p].doctor_id, req[p].date, req[p].time) :
              appointment[a].patient_id # p

----------------------------------------------------------------------------
(* C2 *)

\* C2: when two different patients call book_appointment for the same free
\* (doctor_id, date, time), then in every interleaving of their pre-check and
\* insert steps exactly one call succeeds, its row committed as Booked, the
\* other fails with SlotAlreadyTaken, and exactly one row exists for the slot.
ExactlyOneWins ==
    (\A p \in Patients : race.out[p] # "") =>
        \E w \in Patients :
            /\ race.out[w] = Booked
            /\ \A l \in Patients \ {w} : race.out[l] \in SlotAlreadyTaken
            /\ \E a \in AppIds :
                  /\ RowsAt(race.slot.doctor_id, race.slot.date, race.slot.time) = {a}
                  /\ appointment[a].patient_id = w
                  /\ appointment[a].status = "Booked"

\* both calls passed the pre-check, and the loser was rejected by the
\* uniqueness constraint
RaceDecidedByConstraint ==
    /\ \A p \in Patients : race.out[p] # ""
    /\ \E l \in Patients : race.out[l] = "Integrity Error: Double-booking attempted."

----------------------------------------------------------------------------
(* C3 *)

\* C3: an appointment's status only changes Booked -> Completed or
\* Booked -> Cancelled; Completed and Cancelled are terminal.
StatusTerminal ==
    [][\A a \in AppIds :
          appointment'[a].status # appointment[a].status =>
              /\ appointment[a].status = "Booked"
              /\ appointment'[a].status \in {"Completed", "Cancelled"}]_vars

----------------------------------------------------------------------------
(* C4 *)

\* C4: a cancel request for an appointment by a patient who is not its
\* patient_id, or by a doctor who is not its doctor_id, is answered as a
\* request for an app_id that does not exist is (NotFoundOrUnauthorized), and
\* leaves every appointment row unchanged.
ForeignCancelRejected ==
    [][/\ \A p \in Patients, a \in 1..(Len(appointment) + 1) :
            (/\ a \in AppIds => appointment[a].patient_id # p
             /\ patient_cancel_appointment(p, a))
            => /\ appointment' = appointment
               /\ resp'.flash =
                    "Appointment not found, already completed, or cancellation window passed."
               /\ resp'.redirect = "patient_dashboard"
       /\ \A d \in Doctors, a \in 1..(Len(appointment) + 1) :
            (/\ a \in AppIds => appointment[a].doctor_id # d
             /\ doctor_cancel_appointment(d, a))
            => /\ appointment' = appointment
               /\ resp'.flash =
                    "Appointment not found, already completed, or you lack authorization."
               /\ resp'.redirect = "doctor_dashboard"]_vars

\* a patient's cancel request for an appointment that is still Booked was
\* answered NotFoundOrUnauthorized: the patient was not its owner
ForeignCancelWitness ==
    /\ resp.flash = "Appointment not found, already completed, or cancellation window passed."
    /\ resp.app_id \in AppIds
    /\ appointment[resp.app_id].status = "Booked"

----------------------------------------------------------------------------
(* C5 *)

\* C5: book_appointment for a date/time strictly before now fails with
\* InvalidWindow without any SQL statement and without changing the
\* appointment table; a date/time equal to or after now passes the check.
PastBookingRejected ==
    [][\A p \in Patients, d \in BookDoctorIds, ds \in BookDates \ {BadDate}, ts \in BookTimes :
          book_appointment(p, d, ds, ts) =>
              IF strptime(ds, ts) < now
              THEN /\ resp'.flash = "Cannot book an appointment in the past."
                   /\ resp'.sql = <<>>
                   /\ appointment' = appointment
                   /\ req'[p] = NoReq
              ELSE \/ req'[p] # NoReq
                   \/ resp'.flash = "This slot was just booked by another patient."]_vars

\* a booking for a slot that has passed was refused
PastBookingWitness ==
    /\ resp.flash = "Cannot book an appointment in the past."
    /\ \E ds \in BookDates \ {BadDate}, ts \in BookTimes : strptime(ds, ts) < now

----------------------------------------------------------------------------
(* C6 *)

\* C6: once an appointment for (doctor_id, date, time) has been cancelled (its
\* row is then Cancelled, or Completed: no row returns to Booked and none is
\* deleted), every later book_appointment for the same slot fails and
\* creates no row.
CancelledSlotNeverReused ==
    [][\A p \in Patients :
          /\ (/\ req[p] # NoReq
              /\ \E a \in RowsAt(req[p].doctor_id, req[p].date, req[p].time) :
                    appointment[a].status # "Booked"
              /\ book_appointment_insert(p))
             => /\ appointment' = appointment
                /\ resp'.flash \in SlotAlreadyTaken
          /\ \A d \in BookDoctorIds, ds \in BookDates, ts \in BookTimes :
                (/\ \E a \in RowsAt(d, ds, ts) : appointment[a].status # "Booked"
                 /\ book_appointment(p, d, ds, ts))
                => /\ appointment' = appointment
                   /\ req'[p] # NoReq \/ resp'.flash \in BookingFailed]_vars

\* an insert was rejected while every row of the table is Cancelled: the
\* slot it hit is a cancelled one
CancelledSlotWitness ==
    /\ resp.flash = "Integrity Error: Double-booking attempted."
    /\ appointment # <<>>
    /\ \A a \in AppIds : appointment[a].status = "Cancelled"

----------------------------------------------------------------------------
(* C7 *)

\* C7: every failed book_appointment leaves the appointment table unchanged.
FailedBookingChangesNothing ==
    [][\A p \in Patients :
          (/\ \/ book_appointment_insert(p)
              \/ \E d \in BookDoctorIds, ds \in BookDates, ts \in BookTimes :
                    book_appointment(p, d, ds, ts)
           /\ req'[p] = NoReq
           /\ resp'.flash \in BookingFailed)
          => appointment' = appointment]_vars

----------------------------------------------------------------------------
(* The resolver's page, read back *)

\* the last response is the page check_doctor_availability rendered
Rendered == resp.flash = "" /\ resp.doctor_id \in Doctors

\* minutes since midnight of a time text, and the text of a minute of the day
Minutes(time_str) == time_str.h * 60 + time_str.m
TimeText(mins) == T(mins \div 60, mins % 60)

\* the availability rows of the resolved doctor on a date
WindowsOn(date_str) ==
    {w \in doctor_availability : w.doctor_id = resp.doctor_id /\ w.date = date_str}

\* a window whose length is a positive multiple of 30 minutes
WholeWindow(w) ==
    /\ Minutes(w.start_time) < Minutes(w.end_time)
    /\ (Minutes(w.end_time) - Minutes(w.start_time)) % 30 = 0

\* the slots start, start + 30, ..., end - 30 of a window, as <<time, end_time>>
ExpectedSlots(w) ==
    {<<TimeText(Minutes(w.start_time) + 30 * k), TimeText(Minutes(w.start_time) + 30 * (k + 1))>> :
        k \in 0..((Minutes(w.end_time) - Minutes(w.start_time)) \div 30 - 1)}

EmittedSlots(date_str) ==
    IF date_str \in DOMAIN resp.slots
    THEN {<<resp.slots[date_str][i].time, resp.slots[date_str][i].end_time>> :
             i \in 1..Len(resp.slots[date_str])}
    ELSE {}

SlotCount(date_str) ==
    IF date_str \in DOMAIN resp.slots THEN Len(resp.slots[date_str]) ELSE 0

----------------------------------------------------------------------------
(* C8 *)

----------------------------------------------------------------------------
(* C9 *)

\* C9: for every availability window whose length is a multiple of 30
\* minutes the resolver emits exactly the slots starting at start_time,
\* start_time + 30 min, ..., end_time - 30 min, each ending 30 minutes after
\* it starts, and none starting at end_time; 08:00-12:00 gives the 8 slots
\* 08:00, 08:30, ..., 11:30.
WholeWindowSlots ==
    Rendered =>
        \A ds \in future_dates :
            (WindowsOn(ds) # {} /\ \A w \in WindowsOn(ds) : WholeWindow(w)) =>
                /\ EmittedSlots(ds) = UNION {ExpectedSlots(w) : w \in WindowsOn(ds)}
                /\ \A w \in WindowsOn(ds) :
                      \A e \in EmittedSlots(ds) : e[1] # w.end_time
                /\ \A w \in WindowsOn(ds) :
                      WindowsOn(ds) = {w} =>
                          /\ SlotCount(ds) = (Minutes(w.end_time) - Minutes(w.start_time)) \div 30
                          /\ \A i \in 1..SlotCount(ds) :
                                resp.slots[ds][i].time =
                                    TimeText(Minutes(w.start_time) + 30 * (i - 1))
                          /\ (w.start_time = T(8, 0) /\ w.end_time = T(12, 0)) =>
                                [i \in 1..SlotCount(ds) |-> resp.slots[ds][i].time] =
                                    <<T(8, 0), T(8, 30), T(9, 0), T(9, 30),
                                      T(10, 0), T(10, 30), T(11, 0), T(11, 30)>>

\* the page of a doctor whose only window on a date is 08:00-12:00
MorningWindowWitness ==
    /\ Rendered
    /\ \E ds \in DOMAIN resp.slots :
          /\ \E w \in WindowsOn(ds) :
                WindowsOn(ds) = {w} /\ w.start_time = T(8, 0) /\ w.end_time = T(12, 0)
          /\ Len(resp.slots[ds]) = 8

----------------------------------------------------------------------------
(* C10 *)

\* C10: a slot emitted for doctor D on date X has is_booked true if and only
\* if an appointment row with doctor_id D, date X, time equal to the slot
\* start and status Booked exists; Cancelled or Completed appointments and
\* appointments of other doctors or dates never mark a slot.
BookedIffBookedRow ==
    Rendered =>
        \A ds \in DOMAIN resp.slots : \A i \in 1..Len(resp.slots[ds]) :
            resp.slots[ds][i].is_booked <=>
                \E a \in AppIds :
                    /\ appointment[a].doctor_id = resp.doctor_id
                    /\ appointment[a].date = ds
                    /\ appointment[a].time = resp.slots[ds][i].time
                    /\ appointment[a].status = "Booked"

\* a page with a booked slot and a free slot whose start is the time of a
\* Cancelled or Completed appointment of the same doctor and date
BookedAndFreedWitness ==
    /\ Rendered
    /\ \E ds \in DOMAIN resp.slots : \E i, j \in 1..Len(resp.slots[ds]) :
          /\ resp.slots[ds][i].is_booked
          /\ ~resp.slots[ds][j].is_booked
          /\ \E a \in AppIds :
                /\ appointment[a].doctor_id = resp.doctor_id
                /\ appointment[a].date = ds
                /\ appointment[a].time = resp.slots[ds][j].time
                /\ appointment[a].status # "Booked"

----------------------------------------------------------------------------
(* C11 *)

\* C11: the slot resolver changes no availability, appointment or treatment
\* row, and resolving slots for the same doctor twice in succession, on the
\* same day and with no change of the tables in between, yields identical
\* output.
ResolverReadOnly ==
    [][\A p \in Patients, d \in Doctors \cup {NoSuchUser} :
          (/\ resp'.flash \in {"", "Doctor not found."}
           /\ resp'.doctor_id \in {d, ""}
           /\ check_doctor_availability(p, d)) =>
              /\ doctor_availability' = doctor_availability
              /\ appointment' = appointment
              /\ treatment' = treatment
              /\ (Rendered /\ resp.doctor_id = d /\ resp.future_dates = future_dates)
                    => resp' = resp]_vars

\* a page that lists a booked slot and was rendered earlier on the present day
SamePageWitness ==
    /\ Rendered
    /\ resp.future_dates = future_dates
    /\ \E ds \in DOMAIN resp.slots : \E i \in 1..Len(resp.slots[ds]) :
          resp.slots[ds][i].is_booked

\* C11 as stated: two resolutions for the same doctor in succession yield
\* identical output whenever no booking, cancellation, treatment or
\* availability change lies between them.
ResolverIdempotent ==
    [][\A p \in Patients, d \in Doctors :
          (Rendered /\ resp.doctor_id = d /\ resp'.doctor_id = d
           /\ check_doctor_availability(p, d))
            => resp'.slots = resp.slots]_vars

----------------------------------------------------------------------------
(* C12 *)

\* C12: for a doctor with no availability window on any of the 7 days starting
\* tomorrow the resolver renders the page with an empty mapping and no error
\* message, whatever appointments exist for that doctor.
EmptyWithoutWindows ==
    [][\A p \in Patients, d \in Doctors :
          (/\ \A w \in doctor_availability : w.doctor_id = d => w.date \notin future_dates
           /\ check_doctor_availability(p, d))
          => /\ resp'.flash = ""
             /\ resp'.redirect = ""
             /\ resp'.doctor_id = d
             /\ DOMAIN resp'.slots = {}]_vars

\* an empty page of a doctor who has a window outside the 7 days and a booked
\* appointment inside them
EmptyPageWitness ==
    /\ Rendered
    /\ DOMAIN resp.slots = {}
    /\ \E w \in doctor_availability : w.doctor_id = resp.doctor_id
    /\ \E a \in AppIds :
          /\ appointment[a].doctor_id = resp.doctor_id
          /\ appointment[a].date \in future_dates
          /\ appointment[a].status = "Booked"

----------------------------------------------------------------------------
(* C13 *)

\* C13: on every page the resolver renders from availability rows written by
\* set_doctor_availability, the slots listed under each date are in strictly
\* ascending order of slot start time.
SlotsAscending ==
    Rendered =>
        \A ds \in DOMAIN resp.slots : \A i, j \in 1..Len(resp.slots[ds]) :
            i < j => Minutes(resp.slots[ds][i].time) < Minutes(resp.slots[ds][j].time)

\* a page with the 16 slots of a morning and an evening window on one date
TwoWindowsWitness ==
    /\ Rendered
    /\ \E ds \in DOMAIN resp.slots :
          /\ Len(resp.slots[ds]) = 16
          /\ resp.slots[ds][8].time = T(11, 30)
          /\ resp.slots[ds][9].time = T(16, 0)

----------------------------------------------------------------------------
(* C14 *)

\* C14: update_treatment commits the treatment row and the status Completed
\* together or not at all, also when a store failure occurs between the two
\* writes or at the commit: in every reachable state an appointment has a
\* treatment record if and only if its status is Completed, and no
\* appointment has more than one treatment record.
TreatmentIffCompleted ==
    \A a \in AppIds :
        /\ TreatmentsOf(a) # {} <=> appointment[a].status = "Completed"
        /\ Cardinality(TreatmentsOf(a)) <= 1

\* the store failed after the INSERT INTO treatment and before the commit, and
\* the appointment is still Booked without a treatment record
FailedBetweenWritesWitness ==
    /\ resp.flash = "Database error: OperationalError"
    /\ resp.sql = <<"SELECT", "INSERT", "UPDATE", "ROLLBACK">>
    /\ resp.app_id \in AppIds
    /\ appointment[resp.app_id].status = "Booked"
    /\ TreatmentsOf(resp.app_id) = {}

----------------------------------------------------------------------------
(* C15 *)

\* every availability row has start_time < end_time, and no two rows share
\* (doctor_id, date, start_time)
AvailabilityRowsValid ==
    /\ \A r \in doctor_availability : Minutes(r.start_time) < Minutes(r.end_time)
    /\ UniqueWindows(doctor_availability)

\* the rows the form selects: 08:00-12:00 per morning box, 16:00-20:00 per
\* evening box, on the date of the box
SelectedWindows(doctor_id, form) ==
    {[doctor_id |-> doctor_id, date |-> D(today + b[1]),
      start_time |-> IF b[2] = "morning" THEN T(8, 0) ELSE T(16, 0),
      end_time |-> IF b[2] = "morning" THEN T(12, 0) ELSE T(20, 0)] : b \in form}

\* the rows of a doctor on the 7 days starting tomorrow, and the other rows
InRange(rows, doctor_id) ==
    {r \in rows : r.doctor_id = doctor_id /\ r.date.day \in (today + 1)..(today + 7)}
OutOfRange(rows, doctor_id) == rows \ InRange(rows, doctor_id)

\* C15: after any sequence of set_doctor_availability POSTs every availability
\* row has start_time < end_time and (doctor_id, date, start_time) is unique;
\* a successful POST replaces the acting doctor's rows of the 7 days starting
\* tomorrow with exactly the selected morning and evening windows and leaves
\* the rows of other doctors, the rows of other dates and the appointment rows
\* unchanged; a failed POST leaves all availability rows unchanged.
AvailabilityReplacedWholesale ==
    /\ []AvailabilityRowsValid
    /\ [][\A d \in Doctors, form \in Forms, f \in AvailabilityFailures :
             (resp'.redirect \in {"doctor_dashboard", "set_doctor_availability"}
              /\ set_doctor_availability(d, form, f)) =>
                 /\ appointment' = appointment
                 /\ IF resp'.flash = "Availability updated successfully for the next 7 days!"
                    THEN /\ InRange(doctor_availability', d) = SelectedWindows(d, form)
                         /\ OutOfRange(doctor_availability', d)
                               = OutOfRange(doctor_availability, d)
                    ELSE /\ f # "none"
                         /\ doctor_availability' = doctor_availability]_vars

\* a POST succeeded while the table holds a row of a date outside the 7 days
\* and a row of another doctor
ReplacedWitness ==
    /\ resp.flash = "Availability updated successfully for the next 7 days!"
    /\ \E r, o \in doctor_availability :
          /\ r.date \notin future_dates
          /\ o.doctor_id # r.doctor_id
          /\ o.date \in future_dates

----------------------------------------------------------------------------
(* C16 *)

\* the slots the resolver would emit for a doctor, as <<date, time>>
Offered(doctor_id) ==
    LET page == available_slots(doctor_id)
    IN  UNION {{<<ds, page[ds][i].time>> : i \in 1..Len(page[ds])} : ds \in DOMAIN page}

\* C16: every appointment row created by book_appointment is a slot the
\* resolver would emit at the moment of booking: its doctor_id is an existing
\* doctor, its (date, time) is a 30-minute-grid slot start inside one of that
\* doctor's availability windows.
BookedRowWasOffered ==
    [][\A p \in Patients :
          (req[p] # NoReq /\ book_appointment_insert(p) /\ appointment' # appointment)
          => /\ req[p].doctor_id \in Doctors
             /\ <<req[p].date, req[p].time>> \in Offered(req[p].doctor_id)]_vars

----------------------------------------------------------------------------
(* C17 *)

\* the last response is the resolver's page, and it lists the slot
\* (date_str, time_str) with is_booked = false
ListedFree(date_str, time_str) ==
    /\ Rendered
    /\ date_str \in DOMAIN resp.slots
    /\ \E i \in 1..Len(resp.slots[date_str]) :
          /\ resp.slots[date_str][i].time = time_str
          /\ ~resp.slots[date_str][i].is_booked

\* C17: every slot the resolver reports with is_booked = false is bookable: a
\* book_appointment for that future slot that is the only request since the
\* page was rendered passes the pre-check and its insert succeeds, after any
\* prior bookings and cancellations of the slot.
FreeSlotBookable ==
    [][\A p \in Patients :
          /\ \A ts \in OfferTimes :
                (/\ ListedFree(D(1), ts)
                 /\ ~InThePast(strptime(D(1), ts))
                 /\ book_appointment(p, resp.doctor_id, D(1), ts))
                => req'[p] # NoReq
          /\ (/\ req[p] # NoReq
              /\ ListedFree(req[p].date, req[p].time)
              /\ req[p].doctor_id = resp.doctor_id
              /\ \A o \in Patients \ {p} : req[o] = NoReq
              /\ book_appointment_insert(p))
             => resp'.flash = Booked]_vars

----------------------------------------------------------------------------
(* C18 *)

\* C18: a user whose is_active flag the admin has set to 0 performs no further
\* state-changing operation until reactivated: a login of that user is
\* refused, and no booking, cancellation, availability update or treatment
\* write requested by that user takes effect, also through a session opened
\* before the blacklisting.
InactiveUserChangesNothing ==
    [][\A u \in AccessUsers :
          is_active[u] = 0 =>
              /\ login(u) => session' = session
              /\ (PatientRequest(u) \/ DoctorRequest(u)) =>
                    UNCHANGED <<appointment, treatment, doctor_availability, req>>]_vars

====
